---- MODULE Spec2Model ----
(***************************************************************************)
(* Model of torchfcpe/models_infer.py: the key-shift ensemble decoder      *)
(* ensemble_f0 and the post-processing entry point InferCFNaiveMelPE.infer.*)
(*                                                                         *)
(* Numbers.  A frequency is either exactly 0 Hz (the unvoiced sentinel) or *)
(* a positive value written on a logarithmic grid: Tone(k) stands for      *)
(* 440 * 2^((k/NoteRes - 69)/12) Hz, so that its note value                *)
(* 12*log2(Hz/440)+69 is k/NoteRes and a key shift of s semitones, i.e. a  *)
(* division by 2^(s/12), moves k by -NoteRes*s.  Penalties are kept as     *)
(* integers by scaling every cost by CostScale = 2*NoteRes^2 (the dead     *)
(* zone 0.5 becomes NoteRes^2).  Floating point rounding is not modelled.  *)
(* Tensor axes are sequences; python index i is index i+1 here.            *)
(*                                                                         *)
(* Spec runs ensemble_f0 on hypotheses drawn from HzSet, once and then     *)
(* once more with a larger penalty base.  SpecInfer runs infer up to       *)
(* MaxCalls times on one audio whose raw estimates are fixed by estimate;  *)
(* interp_uv stays False (the gap filling routine lives in torch_interp).  *)
(***************************************************************************)
EXTENDS Integers, Sequences, FiniteSets, TLC

\* ------------------------------------------------------------- bounds
\* grid steps per semitone
NoteRes == 2
MaxB == 2
MaxC == 3
MaxCells == 6
MaxPen == 2
MaxCalls == 2

\* the unvoiced sentinel 0 Hz, and the positive frequencies of the grid
HzZero == [zero |-> TRUE, k |-> 0]
Tone(k) == [zero |-> FALSE, k |-> k]

\* decoder inputs: values close to note 0, so that shifting them by a
\* semitone crosses the clamp of line 26 and the dead zone of line 62
HzSet == {HzZero, Tone(2), Tone(3)}
ShiftSet == {-1, 0, 1}
PenSet == 0..MaxPen

CostScale == 2 * NoteRes * NoteRes

\* line 136: the default of tta_key_shifts
DefaultKeyShifts == <<0, -12, 12>>

VARIABLES
    f0_in,           \* the hypotheses as the caller handed them over
    f0_list,         \* the list object, overwritten by line 23
    key_shift_list,
    tta_uv_penalty,
    pc,              \* "call" | "done" | "error"
    notes,           \* [b][t][c]
    dp,              \* [b][t][c]
    backtrack,       \* [b][t][c]
    sel,             \* [b][t]: min_indices used at frame t while backtracking
    f0_result,       \* [b][t]
    first,           \* penalty and result of an earlier run on the same hypotheses
    estimate,        \* the extractor on this audio: key shift -> raw f0 [b][t]
    default_key_shifts,  \* the list object bound to the default of tta_key_shifts
    caller_key_shifts,   \* a list object the caller owns and passes in
    options,         \* f0_min, f0_max, output_interp_target_length, retur_uv of the calls
    ncalls,          \* infer calls made so far
    last             \* arguments and outcome of the latest infer call

decode_vars == <<f0_in, f0_list, key_shift_list, tta_uv_penalty, pc, notes, dp,
                 backtrack, sel, f0_result, first>>
infer_vars == <<estimate, default_key_shifts, caller_key_shifts, options, ncalls,
                last>>
vars == <<decode_vars, infer_vars>>

\* ------------------------------------------------------------- ensemble_f0
\* faulty variant: the shift is applied the wrong way round (a product for the quotient)
CompensateUp(f0, key_shift) ==
    IF f0.zero THEN f0 ELSE Tone(f0.k + NoteRes * key_shift)

\* line 22: f0 / (2 ** (key_shift / 12)); 0 Hz stays 0 Hz
Compensate(f0, key_shift) ==
    IF f0.zero THEN f0 ELSE Tone(f0.k - NoteRes * key_shift)

\* lines 24-26: epsilon for 0 Hz (note far below 0), log2, clamp note < 0 to 0
ToNote(f0) ==
    IF f0.zero THEN 0 ELSE IF f0.k < 0 THEN 0 ELSE f0.k

\* a lazily defined row, evaluated once into a tuple
Tup(s) == s \o <<>>

\* faulty variant: the list keeps the value after the epsilon of line 24 was added, so
\* that 0 Hz is stored as 1e-6 Hz (about note -276)
CompensatedListEps(fl, ks) ==
    Tup([idx \in 1..Len(fl) |->
        Tup([b \in 1..Len(fl[idx]) |->
            Tup([t \in 1..Len(fl[idx][b]) |->
                IF fl[idx][b][t].zero THEN Tone(0 - 276 * NoteRes)
                ELSE Compensate(fl[idx][b][t], ks[idx])])])])

\* lines 21-23: the list after the conversion loop
CompensatedList(fl, ks) ==
    Tup([idx \in 1..Len(fl) |->
        Tup([b \in 1..Len(fl[idx]) |->
            Tup([t \in 1..Len(fl[idx][b]) |->
                Compensate(fl[idx][b][t], ks[idx])])])])

\* line 35 (and 72): torch.cat(..., dim=-1): [c][b][t] -> [b][t][c]
Cat(xs) ==
    Tup([b \in 1..Len(xs[1]) |->
        Tup([t \in 1..Len(xs[1][b]) |->
            Tup([c \in 1..Len(xs) |-> xs[c][b][t]])])])

\* lines 24-27 for every hypothesis, then line 35
NotesOf(fc) ==
    Cat(Tup([c \in 1..Len(fc) |->
            Tup([b \in 1..Len(fc[c]) |->
                Tup([t \in 1..Len(fc[c][b]) |-> ToNote(fc[c][b][t])])])]))

\* line 33
UvPenalty(p) == CostScale * p * p

SeqMin(s) == CHOOSE m \in {s[i] : i \in 1..Len(s)} : \A i \in 1..Len(s) : m <= s[i]

\* torch.min / torch.argmin over the last axis: first minimal index
ArgMinFirst(s) ==
    CHOOSE i \in 1..Len(s) : s[i] = SeqMin(s) /\ \A j \in 1..(i-1) : s[j] > s[i]

\* faulty variant: the distance is not masked by is_voiced
L2DistanceUnmasked(prev, cur) ==
    LET raw == 2 * (prev - cur) * (prev - cur) - NoteRes * NoteRes
    IN  IF raw > 0 THEN raw ELSE 0

\* lines 59-64: pow(prev - cur, 2) * is_voiced - 0.5, then zeroed unless > 0
L2Distance(prev, cur) ==
    LET is_voiced == prev > 0
        raw == 2 * (prev - cur) * (prev - cur) * (IF is_voiced THEN 1 ELSE 0)
               - NoteRes * NoteRes
    IN  IF raw > 0 THEN raw ELSE 0

\* faulty variant: the doubled penalty is charged after a voiced predecessor
\* (is_voiced for ~is_voiced on line 66)
TransCostSwapped(prev, cur, uv) ==
    IF cur <= 0
    THEN 1 * uv
    ELSE L2Distance(prev, cur) + (IF prev > 0 THEN 1 ELSE 0) * uv * 2

\* what is added to dp[t-1, c'] for candidate note cur after predecessor prev
\* (line 50 for an unvoiced candidate, line 66 for a voiced one)
TransCost(prev, cur, uv) ==
    IF cur <= 0
    THEN 1 * uv
    ELSE L2Distance(prev, cur) + (IF prev > 0 THEN 0 ELSE 1) * uv * 2

\* line 41
InitRow(n1, uv) == [c \in 1..Len(n1) |-> IF n1[c] <= 0 THEN uv ELSE 0]

\* lines 45-70 for one (t, c): the sums offered to torch.min
Offers(nprev, dpprev, cur, uv) ==
    [cp \in 1..Len(nprev) |-> dpprev[cp] + TransCost(nprev[cp], cur, uv)]

RECURSIVE ForwardPassFrom(_, _, _, _)
\* lines 43-70 for one batch item: rows t..T appended to the rows before them
ForwardPassFrom(nb, uv, t, acc) ==
    IF t > Len(nb)
    THEN acc
    ELSE LET off == Tup([c \in 1..Len(nb[t]) |->
                        Tup(Offers(nb[t-1], acc.dp[t-1], nb[t][c], uv))])
             dprow == Tup([c \in 1..Len(nb[t]) |-> SeqMin(off[c])])
             btrow == Tup([c \in 1..Len(nb[t]) |-> ArgMinFirst(off[c])])
         IN  ForwardPassFrom(nb, uv, t + 1,
                         [dp |-> Append(acc.dp, dprow), bt |-> Append(acc.bt, btrow)])

\* lines 36-70 for one batch item: the dp and backtrack tables
ForwardPass(nb, uv) ==
    ForwardPassFrom(nb, uv, 2,
                [dp |-> <<Tup(InitRow(nb[1], uv))>>,
                 bt |-> <<Tup([c \in 1..Len(nb[1]) |-> 1])>>])

RECURSIVE WalkFromStale(_, _, _)
\* faulty variant: the predecessor is read from the backtrack row of the frame before
WalkFromStale(bt, t, acc) ==
    IF t = 0
    THEN acc
    ELSE WalkFromStale(bt, t - 1, <<bt[t][acc[1]]>> \o acc)

RECURSIVE WalkFrom(_, _, _)
\* lines 76-78 for one batch item: min_indices of frames 1..t put before acc,
\* whose first entry is the min_indices of frame t + 1
WalkFrom(bt, t, acc) ==
    IF t = 0
    THEN acc
    ELSE WalkFrom(bt, t - 1, <<bt[t + 1][acc[1]]>> \o acc)

\* lines 72-78 for one batch item
DecodeItem(nb, fb, uv) ==
    LET T == Len(nb)
        tab == ForwardPass(nb, uv)
        s == WalkFrom(tab.bt, T - 1, <<ArgMinFirst(tab.dp[T])>>)
    IN  [dp |-> tab.dp, bt |-> tab.bt, sel |-> s,
         f0 |-> Tup([t \in 1..T |-> fb[t][s[t]]])]

\* ensemble_f0, lines 18-80.  With more than one batch item the test of line 48
\* is taken on a tensor of B booleans (T >= 2) and the assignment of line 77
\* receives a B x B block for a column of B entries (T = 1): both raise.
ensemble_f0(fl, ks, p) ==
    LET fc == CompensatedList(fl, ks)
        n == NotesOf(fc)
        f0s == Cat(fc)
        B == Len(n)
        uv == UvPenalty(p)
        items == Tup([b \in 1..B |-> DecodeItem(n[b], f0s[b], uv)])
    IN  IF B > 1
        THEN [status |-> "error", f0_list |-> fc, notes |-> n,
              dp |-> <<>>, backtrack |-> <<>>, sel |-> <<>>, f0 |-> <<>>]
        ELSE [status |-> "done", f0_list |-> fc, notes |-> n,
              dp |-> Tup([b \in 1..B |-> items[b].dp]),
              backtrack |-> Tup([b \in 1..B |-> items[b].bt]),
              sel |-> Tup([b \in 1..B |-> items[b].sel]),
              f0 |-> Tup([b \in 1..B |-> items[b].f0])]

\* ------------------------------------------------------------- decoder runs
Shapes ==
    {sh \in [B : 1..MaxB, C : 1..MaxC, T : 1..MaxCells] :
        sh.B * sh.C * sh.T <= MaxCells}

\* no infer call is made in the decoder runs
InferIdle ==
    /\ estimate = <<>>
    /\ default_key_shifts = DefaultKeyShifts
    /\ caller_key_shifts = <<>>
    /\ options = <<>>
    /\ ncalls = 0
    /\ last = <<>>

Init ==
    /\ InferIdle
    /\ \E sh \in Shapes :
          /\ f0_in \in [1..sh.C -> [1..sh.B -> [1..sh.T -> HzSet]]]
          /\ key_shift_list \in [1..sh.C -> ShiftSet]
    /\ f0_list = f0_in
    /\ tta_uv_penalty \in PenSet
    /\ pc = "call"
    /\ notes = <<>>
    /\ dp = <<>>
    /\ backtrack = <<>>
    /\ sel = <<>>
    /\ f0_result = <<>>
    /\ first = <<>>

Ensemble ==
    /\ pc = "call"
    /\ \E r \in {ensemble_f0(f0_list, key_shift_list, tta_uv_penalty)} :
           /\ pc' = r.status
           /\ f0_list' = r.f0_list
           /\ notes' = r.notes
           /\ dp' = r.dp
           /\ backtrack' = r.backtrack
           /\ sel' = r.sel
           /\ f0_result' = r.f0
    /\ UNCHANGED <<f0_in, key_shift_list, tta_uv_penalty, first>>
    /\ UNCHANGED infer_vars

\* the caller decodes the same hypotheses once more with a larger penalty base
EnsembleAgain ==
    /\ pc = "done"
    /\ first = <<>>
    /\ \E p \in PenSet :
          /\ p > tta_uv_penalty
          /\ \E r \in {ensemble_f0(f0_in, key_shift_list, p)} :
                /\ pc' = r.status
                /\ f0_list' = r.f0_list
                /\ notes' = r.notes
                /\ dp' = r.dp
                /\ backtrack' = r.backtrack
                /\ sel' = r.sel
                /\ f0_result' = r.f0
          /\ tta_uv_penalty' = p
    /\ first' = [penalty |-> tta_uv_penalty, f0 |-> f0_result, sel |-> sel]
    /\ UNCHANGED <<f0_in, key_shift_list>>
    /\ UNCHANGED infer_vars

Next == Ensemble \/ EnsembleAgain

Spec == Init /\ [][Next]_vars

\* ------------------------------------------------------------- infer
\* line 135
DefaultUvPenaltyBase == 12

\* line 180: self.args_dict["model"]["f0_min"], here note 24 (32.70 Hz)
ModelF0Min == Tone(24 * NoteRes)

\* faulty variant: the key x if x >= 0 else -x * 2
SortKeyTimes(x) == IF x >= 0 THEN 2 * x ELSE -4 * x

\* line 160: the sort key x if x >= 0 else -x / 2, doubled to stay integral
SortKey(x) == IF x >= 0 THEN 2 * x ELSE -x

\* list.sort is stable: x goes after every element whose key is not larger
Insert(s, x) ==
    LET n == Cardinality({i \in 1..Len(s) : SortKey(s[i]) <= SortKey(x)})
    IN  SubSeq(s, 1, n) \o <<x>> \o SubSeq(s, n + 1, Len(s))

RECURSIVE SortShifts(_)
\* line 160: tta_key_shifts.sort(key=...), the contents of the list afterwards
SortShifts(s) ==
    IF Len(s) = 0 THEN s
    ELSE Insert(SortShifts(SubSeq(s, 1, Len(s) - 1)), s[Len(s)])

\* a < b on Hz values
HzLess(a, b) ==
    IF b.zero THEN FALSE ELSE IF a.zero THEN TRUE ELSE a.k < b.k

\* line 181: uv = (f0_for_uv < f0_min), as 0 / 1
UvMask(f0_for_uv, f0_min) ==
    Tup([b \in 1..Len(f0_for_uv) |->
        Tup([t \in 1..Len(f0_for_uv[b]) |->
            IF HzLess(f0_for_uv[b][t], f0_min) THEN 1 ELSE 0])])

\* line 182: f0 * (1 - uv)
ApplyUv(f0, uv) ==
    Tup([b \in 1..Len(f0) |->
        Tup([t \in 1..Len(f0[b]) |->
            IF uv[b][t] = 1 THEN HzZero ELSE f0[b][t]])])

\* lines 188-189: f0[f0 > f0_max] = f0_max
ClampMax(f0, f0_max) ==
    IF f0_max = <<>> THEN f0
    ELSE Tup([b \in 1..Len(f0) |->
            Tup([t \in 1..Len(f0[b]) |->
                IF HzLess(f0_max[1], f0[b][t]) THEN f0_max[1] ELSE f0[b][t]])])

\* torch.nn.functional.interpolate(mode="nearest") along the frame axis:
\* output frame i (from 0) takes input frame floor(i * T / size)
Interpolate(x, size) ==
    Tup([b \in 1..Len(x) |->
        Tup([i \in 1..size |-> x[b][(((i - 1) * Len(x[b])) \div size) + 1]])])

\* lines 190-195
ResampleF0(f0, target) ==
    IF target = <<>> THEN f0 ELSE Interpolate(f0, target[1])

\* faulty variant: the mask is always taken on the working sequence
VoicingSourceWorking(est, sorted, tta, origin_uv, f0_list_after, f0) == f0

\* the voicing source of lines 172-178; f0_list is the list ensemble_f0 left
VoicingSource(est, sorted, tta, origin_uv, f0_list_after, f0) ==
    IF tta /\ origin_uv
    THEN IF sorted[1] = 0 THEN f0_list_after[1] ELSE est[0]
    ELSE f0

\* key shifts handed to the extractor, in call order (lines 162, 171, 176)
ExtractorCalls(sorted, tta, origin_uv, decoded) ==
    IF ~tta THEN <<0>>
    ELSE IF decoded /\ origin_uv /\ sorted[1] # 0 THEN Append(sorted, 0)
    ELSE sorted

\* InferCFNaiveMelPE.infer, lines 158-205, with interp_uv = False
infer(est, tta_key_shifts, opt, tta, origin_uv) ==
    LET asserted == ~tta \/ Len(tta_key_shifts) > 0
        sorted == IF tta THEN SortShifts(tta_key_shifts) ELSE tta_key_shifts
        raw == Tup([i \in 1..Len(sorted) |-> est[sorted[i]]])
        ens == ensemble_f0(raw, sorted, DefaultUvPenaltyBase)
        decoded == ~tta \/ ens.status = "done"
        f0a == IF tta THEN ens.f0 ELSE est[0]
        src == VoicingSource(est, sorted, tta, origin_uv, ens.f0_list, f0a)
        f0_min == IF opt.f0_min = <<>> THEN ModelF0Min ELSE opt.f0_min[1]
        uv == UvMask(src, f0_min)
        f0b == ResampleF0(ClampMax(ApplyUv(f0a, uv), opt.f0_max), opt.target)
        failed == [status |-> "error", key_shifts |-> sorted, f0_raw |-> <<>>,
                   calls |-> IF asserted
                             THEN ExtractorCalls(sorted, tta, origin_uv, decoded)
                             ELSE <<>>,
                   hyp_shifts |-> IF asserted /\ tta THEN sorted ELSE <<>>,
                   uv |-> <<>>, f0 |-> <<>>, ret_uv |-> <<>>]
    IN  IF ~asserted \/ ~decoded THEN failed
        ELSE IF opt.retur_uv /\ opt.target = <<>>
        THEN [failed EXCEPT !.uv = uv]
        ELSE [status |-> "ok", key_shifts |-> sorted, f0_raw |-> f0a,
              calls |-> ExtractorCalls(sorted, tta, origin_uv, decoded),
              hyp_shifts |-> IF tta THEN sorted ELSE <<>>,
              uv |-> uv, f0 |-> f0b,
              ret_uv |-> IF opt.retur_uv THEN Interpolate(uv, opt.target[1]) ELSE <<>>]

\* ------------------------------------------------------------- infer runs
KeyShiftUniverse == {-12, 0, 12}

\* raw estimates of a 110 Hz voice: the shifted pitch, or nothing
EstimateValues(key_shift) == {HzZero, Tone((45 + key_shift) * NoteRes)}

EstimateShapes == {[B |-> 1, T |-> 2], [B |-> 2, T |-> 1]}

EstimatesOf(sh) ==
    LET one(k) == [1..sh.B -> [1..sh.T -> EstimateValues(k)]]
    IN  {e \in [KeyShiftUniverse -> UNION {one(k) : k \in KeyShiftUniverse}] :
            \A k \in KeyShiftUniverse : e[k] \in one(k)}

Estimates == UNION {EstimatesOf(sh) : sh \in EstimateShapes}

\* the lists a caller passes: the shifts of the universe, each at most once
CallerLists ==
    {l \in UNION {[1..n -> KeyShiftUniverse] : n \in 0..Cardinality(KeyShiftUniverse)} :
        \A i, j \in 1..Len(l) : i # j => l[i] # l[j]}

\* post-processing options of a caller: the range either left to the model
\* or given as 146.8 Hz .. 82.4 Hz (notes 50 and 40), so that both bite
OptionSets ==
    {o \in [f0_min : {<<>>, <<Tone(50 * NoteRes)>>},
            f0_max : {<<>>, <<Tone(40 * NoteRes)>>},
            target : {<<>>, <<3>>},
            retur_uv : BOOLEAN] : (o.f0_min = <<>>) <=> (o.f0_max = <<>>)}

\* tta_use_origin_uv is read only under test_time_augmentation (line 172)
CallArgs ==
    {a \in [tta : BOOLEAN, use_default : BOOLEAN, origin_uv : BOOLEAN] :
        a.origin_uv => a.tta}

\* ensemble_f0 is not called on its own in the infer runs
DecodeIdle ==
    /\ f0_in = <<>>
    /\ f0_list = <<>>
    /\ key_shift_list = <<>>
    /\ tta_uv_penalty = DefaultUvPenaltyBase
    /\ pc = "idle"
    /\ notes = <<>>
    /\ dp = <<>>
    /\ backtrack = <<>>
    /\ sel = <<>>
    /\ f0_result = <<>>
    /\ first = <<>>

InitInfer ==
    /\ DecodeIdle
    /\ estimate \in Estimates
    /\ default_key_shifts = DefaultKeyShifts
    /\ caller_key_shifts \in CallerLists
    /\ options \in OptionSets
    /\ ncalls = 0
    /\ last = <<>>

Infer ==
    /\ ncalls < MaxCalls
    /\ \E a \in CallArgs :
          LET arg == IF a.use_default THEN default_key_shifts ELSE caller_key_shifts
          IN  \E r \in {infer(estimate, arg, options, a.tta, a.origin_uv)} :
                /\ default_key_shifts' =
                      IF a.use_default THEN r.key_shifts ELSE default_key_shifts
                /\ caller_key_shifts' =
                      IF a.use_default THEN caller_key_shifts ELSE r.key_shifts
                /\ last' = [tta |-> a.tta, use_default |-> a.use_default,
                            origin_uv |-> a.origin_uv, given |-> arg, out |-> r]
    /\ ncalls' = ncalls + 1
    /\ UNCHANGED <<estimate, options>>
    /\ UNCHANGED decode_vars

NextInfer == Infer

SpecInfer == InitInfer /\ [][NextInfer]_vars

\* ------------------------------------------------------------- properties
\* decoder: the shape of the hypotheses handed over
NumHyp == Len(f0_in)
NumBatch == Len(f0_in[1])
NumFrames == Len(f0_in[1][1])
Decoded == pc = "done"

\* a Hz value divided by 2^(s/12), written out on the grid
DividedBy(hz, s) ==
    IF hz.zero THEN hz ELSE [zero |-> FALSE, k |-> hz.k - NoteRes * s]

\* C1 as the spec states it: every emitted value is the unaltered input value
\* of some hypothesis at the same batch item and frame.
C1_EmitsOriginal ==
    Decoded =>
        \A b \in 1..NumBatch : \A t \in 1..NumFrames :
            \E c \in 1..NumHyp : f0_result[b][t] = f0_in[c][b][t]

\* C1 amended: every emitted value is the value of the hypothesis selected at
\* that frame, at the same batch item and frame, divided by 2^(shift/12) for
\* that hypothesis' key shift; it is the input value itself only where the
\* shift is 0 or the value is 0 Hz.
C1_EmitsCompensated ==
    Decoded =>
        \A b \in 1..NumBatch : \A t \in 1..NumFrames :
            LET c == sel[b][t]
            IN  /\ c \in 1..NumHyp
                /\ f0_result[b][t] = DividedBy(f0_in[c][b][t], key_shift_list[c])
                /\ (key_shift_list[c] = 0 \/ f0_in[c][b][t].zero)
                      => f0_result[b][t] = f0_in[c][b][t]

\* C1 witness: a decoded frame takes a voiced value from a shifted hypothesis.
C1_Witness ==
    /\ Decoded
    /\ \E b \in 1..NumBatch : \E t \in 1..NumFrames :
          /\ key_shift_list[sel[b][t]] # 0
          /\ ~f0_result[b][t].zero
          /\ \A c \in 1..NumHyp : f0_result[b][t] # f0_in[c][b][t]

\* C3: for every batch size decode completes, keeps the [batch, frame] shape
\* and gives each batch item the result of decoding that item alone.
C3_BatchIndependent ==
    pc # "call" =>
        /\ Decoded
        /\ Len(f0_result) = NumBatch
        /\ \A b \in 1..NumBatch :
              LET alone == [c \in 1..NumHyp |-> <<f0_in[c][b]>>]
              IN  /\ Len(f0_result[b]) = NumFrames
                  /\ f0_result[b] =
                        ensemble_f0(alone, key_shift_list, tta_uv_penalty).f0[1]

\* C4: a single hypothesis with key shift 0 is returned unchanged at every
\* frame, whatever the penalty base.
C4_SingleHypothesisIdentity ==
    (Decoded /\ NumHyp = 1 /\ key_shift_list = <<0>>) =>
        f0_result = f0_in[1]

\* C4 witness: such a run over voiced and unvoiced frames with a penalty.
C4_Witness ==
    /\ Decoded /\ NumHyp = 1 /\ key_shift_list = <<0>>
    /\ tta_uv_penalty > 0
    /\ \E t, u \in 1..NumFrames :
          t < u /\ ~f0_in[1][1][t].zero /\ f0_in[1][1][u].zero
    /\ f0_result = f0_in[1]

\* the penalty weight of a path of hypothesis indices through the notes nb:
\* frames whose candidate is unvoiced, plus twice the unvoiced -> voiced steps
PenaltyWeight(nb, path) ==
    Cardinality({t \in 1..Len(nb) : nb[t][path[t]] <= 0})
    + 2 * Cardinality({t \in 2..Len(nb) :
                          nb[t][path[t]] > 0 /\ nb[t-1][path[t-1]] <= 0})

VoicedFrames(f0b) == Cardinality({t \in 1..Len(f0b) : ~f0b[t].zero})

DecodedTwice == Decoded /\ first # <<>>

\* C6 as the spec states it: with the hypotheses fixed, a larger penalty base
\* never gives fewer voiced (non-zero) output frames.
C6_VoicedMonotone ==
    DecodedTwice =>
        \A b \in 1..NumBatch :
            VoicedFrames(f0_result[b]) >= VoicedFrames(first.f0[b])

\* C6 amended: with the hypotheses fixed, a larger penalty base never raises
\* the penalty weight of the decoded path (its frames with an unvoiced
\* candidate plus twice its unvoiced -> voiced steps); the number of voiced
\* output frames may drop.
C6_WeightMonotone ==
    DecodedTwice =>
        \A b \in 1..NumBatch :
            PenaltyWeight(notes[b], sel[b]) <= PenaltyWeight(notes[b], first.sel[b])

\* C6 witness: the larger penalty base changed the output and lowered the
\* weight, with fewer voiced frames than before.
C6_Witness ==
    /\ DecodedTwice
    /\ PenaltyWeight(notes[1], sel[1]) < PenaltyWeight(notes[1], first.sel[1])
    /\ VoicedFrames(f0_result[1]) < VoicedFrames(first.f0[1])

\* cost of a path of hypothesis indices over frames 1..Len(path): the frame-0
\* cost of line 41 plus the transition costs of the forward pass
RECURSIVE PathCost(_, _, _)
PathCost(nb, path, uv) ==
    IF Len(path) = 1
    THEN (IF nb[1][path[1]] <= 0 THEN uv ELSE 0)
    ELSE PathCost(nb, SubSeq(path, 1, Len(path) - 1), uv)
         + TransCost(nb[Len(path) - 1][path[Len(path) - 1]],
                     nb[Len(path)][path[Len(path)]], uv)

PathsTo(t, c) == {p \in [1..t -> 1..NumHyp] : p[t] = c}

SetMin(S) == CHOOSE m \in S : \A x \in S : m <= x

\* C8: dp[t, c] is the least cost of the paths over frames 0..t ending at c,
\* and the path walked back from argmin dp[T-1, :] is a path over all frames
\* whose cost is min dp[T-1, :], so that no path costs less.
C8_Optimal ==
    Decoded =>
        \A b \in 1..NumBatch :
            LET uv == CostScale * tta_uv_penalty * tta_uv_penalty
                cost(p) == PathCost(notes[b], p, uv)
            IN  /\ \A t \in 1..NumFrames : \A c \in 1..NumHyp :
                      dp[b][t][c] = SetMin({cost(p) : p \in PathsTo(t, c)})
                /\ sel[b] \in [1..NumFrames -> 1..NumHyp]
                /\ cost(sel[b]) = SetMin({dp[b][NumFrames][c] : c \in 1..NumHyp})
                /\ \A p \in [1..NumFrames -> 1..NumHyp] : cost(sel[b]) <= cost(p)

\* C8 witness: a decoded path that changes hypothesis and beats another
\* path strictly.
C8_Witness ==
    /\ Decoded /\ NumFrames >= 2 /\ NumHyp >= 2
    /\ \E t \in 2..NumFrames : sel[1][t] # sel[1][t-1]
    /\ \E p \in [1..NumFrames -> 1..NumHyp] :
          PathCost(notes[1], p, CostScale * tta_uv_penalty * tta_uv_penalty)
             > PathCost(notes[1], sel[1], CostScale * tta_uv_penalty * tta_uv_penalty)

\* max(0, (a - b)^2 - 0.5) in scaled units
DeadZone(a, b) ==
    IF 2 * (a - b) * (a - b) > NoteRes * NoteRes
    THEN 2 * (a - b) * (a - b) - NoteRes * NoteRes ELSE 0

\* dp[t, c] of every voiced candidate is the least of dp[t-1, c'] + cost(c')
VoicedStepIs(cost(_, _, _)) ==
    Decoded =>
        \A b \in 1..NumBatch : \A t \in 2..NumFrames : \A c \in 1..NumHyp :
            notes[b][t][c] > 0 =>
                dp[b][t][c] =
                    SetMin({dp[b][t-1][cp]
                              + cost(notes[b][t-1][cp], notes[b][t][c],
                                     CostScale * tta_uv_penalty * tta_uv_penalty) :
                            cp \in 1..NumHyp})

ClaimedCost(prev, cur, uv) ==
    IF prev > 0 THEN DeadZone(prev, cur) ELSE DeadZone(prev, cur) + 2 * uv

AmendedCost(prev, cur, uv) ==
    IF prev > 0 THEN DeadZone(prev, cur) ELSE 2 * uv

\* C9 as the spec states it: into a voiced candidate, an unvoiced predecessor
\* costs the dead-zone term of the two notes plus 2 * uv_penalty, a voiced
\* predecessor the dead-zone term alone.
C9_DeadZonePlusPenalty == VoicedStepIs(ClaimedCost)

\* C9 amended: into a voiced candidate, an unvoiced predecessor costs exactly
\* 2 * uv_penalty (its distance counts as 0), a voiced predecessor the
\* dead-zone term alone.
C9_PenaltyOnly == VoicedStepIs(AmendedCost)

\* C9 witness: a voiced candidate whose best predecessor is unvoiced, more
\* than the dead zone away from it.
C9_Witness ==
    /\ Decoded
    /\ \E t \in 2..NumFrames : \E c \in 1..NumHyp :
          /\ notes[1][t][c] > 0
          /\ notes[1][t-1][backtrack[1][t][c]] <= 0
          /\ DeadZone(notes[1][t-1][backtrack[1][t][c]], notes[1][t][c]) > 0

\* infer: the latest call
Called == last # <<>>
Augmented == Called /\ last.tta
Returned == Called /\ last.out.status = "ok"

\* C2: with the mask requested and no target length, infer returns the mask
\* un-resampled, frame for frame with the frequency sequence, and does not
\* end in an error (calls whose decoding raised are left aside).
C2_MaskWithoutTarget ==
    (Called /\ options.retur_uv /\ options.target = <<>> /\ last.out.uv # <<>>) =>
        /\ last.out.status = "ok"
        /\ last.out.ret_uv = last.out.uv
        /\ \A b \in 1..Len(last.out.f0) :
              Len(last.out.ret_uv[b]) = Len(last.out.f0[b])

\* x sorts no later than y under the key x if x >= 0 else -x / 2
KeyLeq(x, y) ==
    (IF x >= 0 THEN 2 * x ELSE -x) <= (IF y >= 0 THEN 2 * y ELSE -y)

\* C5 as the spec states it: the list [0, -12, 12] is processed in the order
\* 0, 12, -12 and reaches the decoder in that order.
C5_PositiveFirst ==
    (Augmented /\ last.given = <<0, -12, 12>>) =>
        /\ SubSeq(last.out.calls, 1, 3) = <<0, 12, -12>>
        /\ last.out.hyp_shifts = <<0, 12, -12>>

\* C5 amended: the shifts are handed to the extractor, and the hypotheses to
\* the decoder, in non-decreasing order of the key x if x >= 0 else -x / 2;
\* under it [0, -12, 12] is processed in the order 0, -12, 12 (the negative
\* shift, key 6, before the positive one, key 12).
C5_SortedByKey ==
    (Augmented /\ Len(last.given) > 0) =>
        LET h == last.out.hyp_shifts
        IN  /\ Len(h) = Len(last.given)
            /\ {h[i] : i \in 1..Len(h)} = {last.given[i] : i \in 1..Len(h)}
            /\ \A i, j \in 1..Len(h) : i < j => KeyLeq(h[i], h[j])
            /\ SubSeq(last.out.calls, 1, Len(h)) = h
            /\ last.given = <<0, -12, 12>> => h = <<0, -12, 12>>

\* C5 witness: an augmented call on [0, -12, 12] that returned, and one on
\* a list the sort had to reorder.
C5_Witness ==
    /\ Augmented /\ Returned
    /\ last.given = <<0, -12, 12>>
    /\ last.out.calls = <<0, -12, 12>>

\* C7: infer leaves the list it was given, and the shared default list, with
\* their elements in the order they had before the call.
C7_ListsUntouched ==
    Called =>
        /\ default_key_shifts = <<0, -12, 12>>
        /\ (IF last.use_default THEN default_key_shifts ELSE caller_key_shifts)
              = last.given

\* the mask of line 181 taken on a raw estimate
MaskOf(raw, floor) ==
    [b \in 1..Len(raw) |->
        [t \in 1..Len(raw[b]) |->
            IF raw[b][t].zero \/ (~floor.zero /\ raw[b][t].k < floor.k)
            THEN 1 ELSE 0]]

Floor == IF options.f0_min = <<>> THEN [zero |-> FALSE, k |-> 24 * NoteRes]
         ELSE options.f0_min[1]

Count(s, x) == Cardinality({i \in 1..Len(s) : s[i] = x})

\* C10: with augmentation and tta_use_origin_uv, the mask comes from the raw
\* key_shift = 0 estimate; with 0 in the list every shift is extracted once
\* and nothing else (N calls), without it one more call with shift 0 follows
\* (N + 1 calls).
C10_OriginVoicing ==
    (Augmented /\ Returned /\ last.origin_uv) =>
        LET g == last.given
            n == Len(g)
            zero_given == \E i \in 1..n : g[i] = 0
        IN  /\ last.out.uv = MaskOf(estimate[0], Floor)
            /\ \A i \in 1..n : Count(last.out.calls, g[i]) = 1
            /\ zero_given => Len(last.out.calls) = n
            /\ ~zero_given =>
                  /\ Len(last.out.calls) = n + 1
                  /\ last.out.calls[n + 1] = 0

\* C10 witness: 0 given, not in first place, and a frame the ensemble voices
\* although the raw shift-0 estimate is unvoiced there.
C10_Witness ==
    /\ Augmented /\ Returned /\ last.origin_uv
    /\ Len(last.given) >= 2 /\ last.given[1] # 0
    /\ \E i \in 2..Len(last.given) : last.given[i] = 0
    /\ Len(last.out.calls) = Len(last.given)
    /\ options.f0_min = <<>>
    /\ \E t \in 1..Len(last.out.uv[1]) :
          last.out.uv[1][t] = 1 /\ ~last.out.f0_raw[1][t].zero

====
